---------------------------- MODULE Spec2Model ----------------------------
(***************************************************************************)
(* Clockin: the log parser, the timezone projection and the day splitter   *)
(* (parser.rs), the per-day aggregator with its week, month and range      *)
(* queries (summary.rs), the body categorizer (binnacle_body_parser.rs),   *)
(* the binnacle (binnacle_2.rs) and the workload histogram (main.rs).      *)
(*                                                                         *)
(* Text is a sequence of tokens.  A token is one ASCII character or the    *)
(* whole text of one RFC 3339 timestamp ("t1", "t2", ...), whose value     *)
(* Rfc3339Value gives.  An instant is a number of ticks; DayLen ticks make *)
(* one civil day.  A DateTime<FixedOffset> is [utc, off]: the instant and  *)
(* the UTC offset in ticks; a NaiveDateTime is a number of civil ticks; a  *)
(* NaiveDate is a number of days.                                          *)
(*                                                                         *)
(* Each part of the program has a specification of its own over the same   *)
(* variables; the parts it does not run stay idle.                         *)
(***************************************************************************)
EXTENDS Integers, Sequences, FiniteSets

VARIABLES
    \* ---- SessionIterator (parser.rs) and its clock
    lines,      \* the lines of the log file, in file order
    pos,        \* how many lines self.lines has handed out
    st,         \* "ready" | "done" (next returned None) | "panicScan" | "panicBody"
    out,        \* the Sessions next() has returned to its consumer, in order
    now,        \* the instant Local::now() reads
    prev,       \* what the previous parse of the same file returned
    parseNo,    \* how many times parse_file has opened the file
    \* ---- NaiveSession::split_at_days (parser.rs)
    civil,      \* the NaiveSession given to split_at_days
    pieces,     \* the collected result, or <<>> before the call
    splitDone,  \* whether split_at_days has run
    \* ---- Summary::summarize (summary.rs)
    input,      \* the Sessions the iterator will hand to summarize
    tz,         \* the target timezone: a fixed offset in ticks
    taken,      \* how many Sessions the loop has pulled
    pending,    \* sub-sessions of the last pulled Session not yet folded
    days,       \* summary.days: a function from the dates present to Day records
    sumst,      \* "run" | "done" (summarize returned) | "panic"
    \* ---- Summary::duration and its callers (summary.rs, main.rs)
    query,      \* the last query put to the Summary, or <<>> before any
    total,      \* <<its result>>, or <<>> before any and after a panic
    qst,        \* "idle" | "done" (the query returned) | "panic"
    \* ---- FixedWeek (summary.rs)
    wdates,     \* the NaiveDates whose weeks are compared
    weeks,      \* their FixedWeeks, or <<>> before real_week ran
    weekEq,     \* weekEq[i][j]: weeks[i] == weeks[j]
    weekCmp,    \* weekCmp[i][j]: weeks[i].cmp(&weeks[j])
    \* ---- binnacle_body_parser::parse (binnacle_body_parser.rs)
    descr,      \* the description text given to parse
    body,       \* <<the Body returned>>, or <<>> before the call
    \* ---- the WorkTimeAnalysis command (main.rs); it reads input and tz too
    hrange,     \* (from, to): the bounds of the date filter
    hidx,       \* how many sub-sessions the outer loop has taken
    credit,     \* the overlaps of the last sub-session, slot by slot
    results,    \* the counter of every slot, in nanoseconds
    hst,        \* "run" | "done" (the outer loop ended)
    \* ---- binnacle_2::process and format (binnacle_2.rs); they read input and tz too
    binnacle,   \* <<the BinnacleData process returned>>, or <<>> before
    report,     \* <<what format printed>>, or <<>> before
    \* ---- SessionTZ::with_timezone and naive_local (parser.rs); they read input and tz
    projected,  \* <<the Session with_timezone returned>>, or <<>> before
    pcivil      \* <<the NaiveSession naive_local returned>>, or <<>> before

vars == <<lines, pos, st, out, now, prev, parseNo, civil, pieces, splitDone,
          input, tz, taken, pending, days, sumst,
          query, total, qst, wdates, weeks, weekEq, weekCmp, descr, body,
          hrange, hidx, credit, results, hst, binnacle, report, projected,
          pcivil>>

parserVars == <<lines, pos, st, out, now, prev, parseNo>>
splitVars  == <<civil, pieces, splitDone>>
sumVars    == <<input, tz, taken, pending, days, sumst>>
queryVars  == <<query, total, qst>>
weekVars   == <<wdates, weeks, weekEq, weekCmp>>
bodyVars   == <<descr, body>>
histVars   == <<hrange, hidx, credit, results, hst>>
binVars    == <<binnacle, report>>
projVars   == <<projected, pcivil>>
extVars    == <<queryVars, weekVars, bodyVars, histVars, binVars, projVars>>

\* every variable outside one part of the program
besidesQuery == <<parserVars, splitVars, weekVars, bodyVars, histVars, binVars, projVars>>
besidesWeek == <<parserVars, splitVars, queryVars, bodyVars, histVars, binVars, projVars>>
besidesBody == <<parserVars, splitVars, queryVars, weekVars, histVars, binVars, projVars>>
besidesHist == <<parserVars, splitVars, queryVars, weekVars, bodyVars, binVars, projVars>>
besidesBin == <<parserVars, splitVars, queryVars, weekVars, bodyVars, histVars, projVars>>
besidesProj == <<parserVars, splitVars, queryVars, weekVars, bodyVars, histVars, binVars>>

----------------------------------------------------------------------------
(* Bounds of the model *)

MaxLines == 4       \* lines in the log file
MaxNow == 3         \* the clock stops advancing here
MaxParses == 1      \* re-parses of the same file after the first parse
DayLen == 2         \* ticks per civil day
MaxCivil == 6       \* latest civil tick of a session given to split_at_days
MaxUtc == 4         \* latest instant of a session given to summarize
MaxSessions == 2    \* sessions given to summarize

----------------------------------------------------------------------------
(* Text *)

TsText == {"t1", "t2"}

\* the length in bytes of a timestamp written by fmt_datetime
TsLen == 25

\* What DateTime::parse_from_rfc3339 reads from a well-formed timestamp text.
Rfc3339Value(tok) ==
    CASE tok = "t1" -> [utc |-> 1, off |-> 0]
      [] tok = "t2" -> [utc |-> 2, off |-> 1]

NoTime == [utc |-> 0, off |-> 0]

\* A piece of a timestamp text cut by a byte slice: no RFC 3339 text.
Frag == "#"

TokLen(tok) == IF tok \in TsText THEN TsLen ELSE 1

RECURSIVE ByteLen(_)
ByteLen(s) == IF s = <<>> THEN 0 ELSE TokLen(Head(s)) + ByteLen(Tail(s))

\* The first char of a text; a timestamp text begins with a digit.
FirstChar(s) == IF Head(s) \in TsText THEN "0" ELSE Head(s)

\* &line[2..] of a line of at least two bytes
Slice2(line) ==
    IF Head(line) \in TsText THEN <<Frag>> \o Tail(line)
    ELSE IF line[2] \in TsText THEN <<Frag>> \o SubSeq(line, 3, Len(line))
    ELSE SubSeq(line, 3, Len(line))

parse_from_rfc3339(s) ==
    IF Len(s) = 1 /\ s[1] \in TsText
    THEN [ok |-> TRUE, v |-> Rfc3339Value(s[1])]
    ELSE [ok |-> FALSE, v |-> NoTime]

is_whitespace(c) == c \in {" ", "\n"}

RECURSIVE trim_end(_)
trim_end(s) ==
    IF s # <<>> /\ is_whitespace(s[Len(s)])
    THEN trim_end(SubSeq(s, 1, Len(s) - 1))
    ELSE s

----------------------------------------------------------------------------
(* parser.rs: is_macro_line, extract_macro, SessionIterator::next *)

\* str::starts_with with a [char; 2] pattern: the text begins with a char
\* that is one of the two.
is_macro_line(line, prefix) ==
    line # <<>> /\ FirstChar(line) \in {"%", prefix}

\* extract_macro with the parse error dropped (.ok()) instead of unwrapped
extract_macro_lenient(line, prefix) ==
    IF ~is_macro_line(line, prefix) THEN [kind |-> "none", v |-> NoTime]
    ELSE IF ByteLen(line) < 2 THEN [kind |-> "panic", v |-> NoTime]
    ELSE LET r == parse_from_rfc3339(Slice2(line))
         IN  IF r.ok THEN [kind |-> "some", v |-> r.v]
             ELSE [kind |-> "none", v |-> NoTime]

\* kind: "none" (not a macro line), "some" (v is the timestamp),
\* "panic" (the slice or the unwrap panicked)
extract_macro(line, prefix) ==
    IF ~is_macro_line(line, prefix) THEN [kind |-> "none", v |-> NoTime]
    ELSE IF ByteLen(line) < 2 THEN [kind |-> "panic", v |-> NoTime]
    ELSE LET r == parse_from_rfc3339(Slice2(line))
         IN  IF r.ok THEN [kind |-> "some", v |-> r.v]
             ELSE [kind |-> "panic", v |-> NoTime]

\* The first loop of next(), from p lines handed out.
RECURSIVE ScanStart(_, _)
ScanStart(ls, p) ==
    IF p >= Len(ls) THEN [kind |-> "eof", pos |-> p, v |-> NoTime]
    ELSE LET m == extract_macro(ls[p + 1], "-")
         IN  CASE m.kind = "some"  -> [kind |-> "start", pos |-> p + 1, v |-> m.v]
               [] m.kind = "panic" -> [kind |-> "panic", pos |-> p + 1, v |-> NoTime]
               [] OTHER            -> ScanStart(ls, p + 1)

\* The second loop of next(): end is the value the loop leaves in `end`.
RECURSIVE ReadBody(_, _, _, _)
ReadBody(ls, p, description, end) ==
    IF p >= Len(ls)
    THEN [kind |-> "ok", pos |-> p, end |-> end, description |-> description]
    ELSE LET m == extract_macro(ls[p + 1], "+")
         IN  CASE m.kind = "some" ->
                    [kind |-> "ok", pos |-> p + 1, end |-> m.v,
                     description |-> description]
               [] m.kind = "panic" ->
                    [kind |-> "panic", pos |-> p + 1, end |-> end,
                     description |-> description]
               [] OTHER ->
                    ReadBody(ls, p + 1, description \o ls[p + 1] \o <<"\n">>, end)

LocalOffset == 0

\* `end` initialised with the epoch instead of the clock
LocalNowEpoch == [utc |-> 0, off |-> LocalOffset]

\* Local::now().fixed_offset()
LocalNow == [utc |-> now, off |-> LocalOffset]

\* One call of SessionIterator::next.
IterNext ==
    /\ st = "ready"
    /\ LET s == ScanStart(lines, pos)
       IN  CASE s.kind = "eof" ->
                  /\ st' = "done"
                  /\ pos' = s.pos
                  /\ out' = out
             [] s.kind = "panic" ->
                  /\ st' = "panicScan"
                  /\ pos' = s.pos
                  /\ out' = out
             [] OTHER ->
                  LET b == ReadBody(lines, s.pos, <<>>, LocalNow)
                  IN  IF b.kind = "panic"
                      THEN /\ st' = "panicBody"
                           /\ pos' = b.pos
                           /\ out' = out
                      ELSE /\ st' = "ready"
                           /\ pos' = b.pos
                           /\ out' = Append(out,
                                  [start |-> s.v, end |-> b.end,
                                   description |-> trim_end(b.description)])
    /\ UNCHANGED <<lines, now, prev, parseNo>>
    /\ UNCHANGED splitVars
    /\ UNCHANGED sumVars
    /\ UNCHANGED extVars

\* parse_file on the same, unchanged file once the previous parse has ended.
ParseFile ==
    /\ st = "done"
    /\ parseNo <= MaxParses
    /\ parseNo' = parseNo + 1
    /\ prev' = out
    /\ out' = <<>>
    /\ pos' = 0
    /\ st' = "ready"
    /\ UNCHANGED <<lines, now>>
    /\ UNCHANGED splitVars
    /\ UNCHANGED sumVars
    /\ UNCHANGED extVars

\* The wall clock advances.
Tick ==
    /\ now < MaxNow
    /\ now' = now + 1
    /\ UNCHANGED <<lines, pos, st, out, prev, parseNo>>
    /\ UNCHANGED splitVars
    /\ UNCHANGED sumVars
    /\ UNCHANGED extVars

----------------------------------------------------------------------------
(* The log files of the model *)

LineSet ==
    { <<>>,                       \* a blank line
      <<"a", " ">>,               \* text, with trailing blank
      <<"%">>,                    \* only '%'
      <<"-", "a">>,               \* begins with '-' alone
      <<"+", "a">>,               \* begins with '+' alone
      <<"%", "-", "t1">>, <<"%", "-", "t2">>,
      <<"%", "+", "t1">>, <<"%", "+", "t2">>,
      <<"%", "-", "a">>,          \* start marker, malformed timestamp
      <<"%", "+", "a">> }         \* end marker, malformed timestamp

SeqsUpTo(S, n) == UNION { [1..k -> S] : k \in 0..n }

IdleSplit ==
    /\ civil = [start |-> 0, end |-> 0, description |-> <<>>]
    /\ pieces = <<>>
    /\ splitDone = FALSE

IdleSum ==
    /\ input = <<>>
    /\ tz = 0
    /\ taken = 0
    /\ pending = <<>>
    /\ days = <<>>
    /\ sumst = "run"

IdleParser ==
    /\ lines = <<>>
    /\ pos = 0
    /\ st = "ready"
    /\ out = <<>>
    /\ now = 0
    /\ prev = <<>>
    /\ parseNo = 1

IdleQuery ==
    /\ query = <<>>
    /\ total = <<>>
    /\ qst = "idle"

IdleWeek ==
    /\ wdates = <<>>
    /\ weeks = <<>>
    /\ weekEq = <<>>
    /\ weekCmp = <<>>

IdleBody ==
    /\ descr = <<>>
    /\ body = <<>>

IdleHist ==
    /\ hrange = <<>>
    /\ hidx = 0
    /\ credit = <<>>
    /\ results = <<>>
    /\ hst = "run"

IdleBin ==
    /\ binnacle = <<>>
    /\ report = <<>>

IdleProj ==
    /\ projected = <<>>
    /\ pcivil = <<>>

IdleExt ==
    /\ IdleQuery
    /\ IdleWeek
    /\ IdleBody
    /\ IdleHist
    /\ IdleBin
    /\ IdleProj

\* every other part idle
IdleBesidesQuery ==
    /\ IdleParser
    /\ IdleSplit
    /\ IdleWeek
    /\ IdleBody
    /\ IdleHist
    /\ IdleBin
    /\ IdleProj

IdleBesidesWeek ==
    /\ IdleParser
    /\ IdleSplit
    /\ IdleQuery
    /\ IdleBody
    /\ IdleHist
    /\ IdleBin
    /\ IdleProj

IdleBesidesBody ==
    /\ IdleParser
    /\ IdleSplit
    /\ IdleQuery
    /\ IdleWeek
    /\ IdleHist
    /\ IdleBin
    /\ IdleProj

IdleBesidesHist ==
    /\ IdleParser
    /\ IdleSplit
    /\ IdleQuery
    /\ IdleWeek
    /\ IdleBody
    /\ IdleBin
    /\ IdleProj

IdleBesidesBin ==
    /\ IdleParser
    /\ IdleSplit
    /\ IdleQuery
    /\ IdleWeek
    /\ IdleBody
    /\ IdleHist
    /\ IdleProj

IdleBesidesProj ==
    /\ IdleParser
    /\ IdleSplit
    /\ IdleQuery
    /\ IdleWeek
    /\ IdleBody
    /\ IdleHist
    /\ IdleBin

Init ==
    /\ lines \in SeqsUpTo(LineSet, MaxLines)
    /\ pos = 0
    /\ st = "ready"
    /\ out = <<>>
    /\ now \in 1..2
    /\ prev = <<>>
    /\ parseNo = 1
    /\ IdleSplit
    /\ IdleSum
    /\ IdleExt

Next == IterNext \/ ParseFile \/ Tick

Spec == Init /\ [][Next]_vars

----------------------------------------------------------------------------
(* The log format as the specification words it *)

StartsWith2(line, c1, c2) == Len(line) >= 2 /\ line[1] = c1 /\ line[2] = c2

IsStartMarkerLine(line) == StartsWith2(line, "%", "-")
IsEndMarkerLine(line) == StartsWith2(line, "%", "+")
IsMarkerLine(line) == IsStartMarkerLine(line) \/ IsEndMarkerLine(line)

\* the marker's two characters are followed by exactly one timestamp text
HasGoodTimestamp(line) == Len(line) = 3 /\ line[3] \in TsText
MarkerTime(line) == Rfc3339Value(line[3])

FirstIdx(S) == IF S = {} THEN 0 ELSE CHOOSE i \in S : \A j \in S : i <= j

\* lines a..b, each followed by a newline
RECURSIVE JoinLines(_, _, _)
JoinLines(ls, a, b) ==
    IF a > b THEN <<>> ELSE ls[a] \o <<"\n">> \o JoinLines(ls, a + 1, b)

Last(s) == s[Len(s)]

Panicked == st \in {"panicScan", "panicBody"}

\* a step that is one call of next()
NextCalled == st = "ready" /\ (st' # st \/ pos' # pos)
Yielded == NextCalled /\ Len(out') = Len(out) + 1

----------------------------------------------------------------------------
(* C1: while next() looks for the start of a session, the line it takes as  *)
(* the start marker is the first line beginning with "%-"; every other line *)
(* is skipped without failure and starts no session.                        *)

C1_StartIffDashPrefix ==
    [][NextCalled =>
        LET k == FirstIdx({i \in (pos + 1)..Len(lines) : IsStartMarkerLine(lines[i])})
        IN  IF k = 0
            THEN st' = "done" /\ pos' = Len(lines) /\ out' = out
            ELSE /\ pos' >= k
                 /\ st' = "panicScan" => pos' = k
                 /\ Len(out') > Len(out) /\ HasGoodTimestamp(lines[k])
                        => Last(out').start = MarkerTime(lines[k])]_vars

(* C2: after the start marker next() has taken, the session is closed by    *)
(* the first line beginning with "%+" and by no other line; every line      *)
(* before it (or up to the end of input) joins the description, without     *)
(* failure.                                                                 *)

C2_EndIffPlusPrefix ==
    [][NextCalled /\ ScanStart(lines, pos).kind = "start" =>
        LET s == ScanStart(lines, pos).pos
            e == FirstIdx({i \in (s + 1)..Len(lines) : IsEndMarkerLine(lines[i])})
        IN  IF e = 0
            THEN /\ st' = "ready"
                 /\ pos' = Len(lines)
                 /\ Len(out') = Len(out) + 1
                 /\ Last(out').description = trim_end(JoinLines(lines, s + 1, Len(lines)))
            ELSE /\ pos' = e
                 /\ st' # "panicScan"
                 /\ st' = "ready" =>
                       /\ Len(out') = Len(out) + 1
                       /\ Last(out').description = trim_end(JoinLines(lines, s + 1, e - 1))
                       /\ HasGoodTimestamp(lines[e]) => Last(out').end = MarkerTime(lines[e])]_vars

----------------------------------------------------------------------------
(* The sessions the log format describes: groups of start marker,           *)
(* description lines and end marker, with non-marker lines before, between  *)
(* and after the groups and, when `open`, a last group with no end marker.  *)
(* ok is FALSE for a log of another shape.                                  *)

RECURSIVE Groups(_, _, _, _, _)
Groups(ls, i, inside, from, acc) ==
    IF i > Len(ls)
    THEN [ok |-> TRUE, open |-> inside, from |-> from, sessions |-> acc]
    ELSE LET line == ls[i]
         IN  IF IsMarkerLine(line) /\ ~HasGoodTimestamp(line)
             THEN [ok |-> FALSE, open |-> FALSE, from |-> 0, sessions |-> <<>>]
             ELSE IF ~inside
             THEN IF IsStartMarkerLine(line) THEN Groups(ls, i + 1, TRUE, i, acc)
                  ELSE IF IsEndMarkerLine(line)
                  THEN [ok |-> FALSE, open |-> FALSE, from |-> 0, sessions |-> <<>>]
                  ELSE Groups(ls, i + 1, FALSE, 0, acc)
             ELSE IF IsEndMarkerLine(line)
                  THEN Groups(ls, i + 1, FALSE, 0,
                          Append(acc, [start |-> MarkerTime(ls[from]),
                                       end |-> MarkerTime(line),
                                       description |->
                                           trim_end(JoinLines(ls, from + 1, i - 1))]))
                  ELSE IF IsStartMarkerLine(line)
                  THEN [ok |-> FALSE, open |-> FALSE, from |-> 0, sessions |-> <<>>]
                  ELSE Groups(ls, i + 1, TRUE, from, acc)

LogGroups == Groups(lines, 1, FALSE, 0, <<>>)

IsPrefixOf(a, b) == Len(a) <= Len(b) /\ a = SubSeq(b, 1, Len(a))

(* C3: for a log made of closed groups the parser yields exactly one        *)
(* Session per group, in file order, with the markers' timestamps and the   *)
(* joined, trailing-trimmed description; it consumes every line and ends    *)
(* when the input ends.                                                     *)

C3_OneSessionPerGroup ==
    LogGroups.ok /\ ~LogGroups.open =>
        /\ ~Panicked
        /\ IsPrefixOf(out, LogGroups.sessions)
        /\ st = "done" => out = LogGroups.sessions /\ pos = Len(lines)

(* C4: when the input ends inside a group, next() still yields the open     *)
(* Session: its description is the lines after the start marker, its end    *)
(* is the clock reading of that call; a later parse of the same file gives  *)
(* the same sessions, the open one's end strictly later once the clock has  *)
(* advanced.                                                                *)

SameButEnd(a, b) == a.start = b.start /\ a.description = b.description

C4_OpenSessionEndsNow ==
    [][NextCalled /\ LogGroups.ok /\ LogGroups.open =>
        LET g == LogGroups
            n == Len(g.sessions) + 1
        IN  /\ st' \notin {"panicScan", "panicBody"}
            /\ Len(out') <= n
            /\ IsPrefixOf(SubSeq(out', 1, Len(out') - (IF Len(out') = n THEN 1 ELSE 0)),
                          g.sessions)
            /\ st' = "done" => Len(out') = n /\ pos' = Len(lines)
            /\ Yielded /\ Len(out') = n =>
                 /\ Last(out').start = MarkerTime(lines[g.from])
                 /\ Last(out').description =
                        trim_end(JoinLines(lines, g.from + 1, Len(lines)))
                 /\ Last(out').end = LocalNow
                 /\ parseNo > 1 =>
                      /\ Len(prev) = n
                      /\ SubSeq(prev, 1, n - 1) = SubSeq(out', 1, n - 1)
                      /\ SameButEnd(Last(prev), Last(out'))
                      /\ now > Last(prev).end.utc
                            => Last(out').end.utc > Last(prev).end.utc]_vars

----------------------------------------------------------------------------
(* C5 *)

BadMarkerLine(line) == IsMarkerLine(line) /\ ~HasGoodTimestamp(line)
BadMarkers == {i \in 1..Len(lines) : BadMarkerLine(lines[i])}

(* C5 as claimed: a marker line with a malformed timestamp makes the parse  *)
(* fail there, nothing after it is processed, and no Session of the log,    *)
(* the ones before the bad line included, reaches the consumer.             *)
C5_NoSessionDelivered ==
    \A i \in BadMarkers :
        /\ pos <= i
        /\ pos = i => Panicked /\ out = <<>>

(* C5, amended: a marker line with a malformed timestamp makes next() panic *)
(* when it reaches the line, and no line after it is ever processed; the    *)
(* Sessions completed before that line have been yielded by earlier calls.  *)
C5_PanicAtBadMarker ==
    \A i \in BadMarkers :
        /\ pos <= i
        /\ pos = i => Panicked

\* a closed group, then the bad marker: the group's Session was yielded
C5_Witness ==
    /\ Panicked
    /\ pos \in BadMarkers
    /\ LET g == Groups(SubSeq(lines, 1, pos - 1), 1, FALSE, 0, <<>>)
       IN  g.ok /\ ~g.open /\ Len(g.sessions) >= 1 /\ out = g.sessions

----------------------------------------------------------------------------
(* C6 *)

\* the timestamps the lines carry, in file order
RECURSIVE Stamps(_)
Stamps(ls) ==
    IF ls = <<>> THEN <<>>
    ELSE SelectSeq(Head(ls), LAMBDA tok : tok \in TsText) \o Stamps(Tail(ls))

\* they never go back, and the clock is not behind them
Chronological ==
    LET ts == Stamps(lines)
    IN  /\ \A i, j \in 1..Len(ts) :
              i <= j => Rfc3339Value(ts[i]).utc <= Rfc3339Value(ts[j]).utc
        /\ \A i \in 1..Len(ts) : Rfc3339Value(ts[i]).utc <= now

(* C6 as claimed: every Session the parser produces has start <= end.       *)
C6_StartBeforeEnd ==
    \A i \in 1..Len(out) : out[i].start.utc <= out[i].end.utc

(* C6, amended: when the timestamps of the log never go back in file order  *)
(* and none is later than the clock at the time of the parse, every Session *)
(* next() yields, closed or open, has start <= end.                         *)
C6_StartBeforeEndChronological ==
    [][Yielded /\ Chronological =>
          Last(out').start.utc <= Last(out').end.utc]_vars

\* a closed group and an open one, read while the clock is past them
C6_Witness ==
    /\ Chronological
    /\ LogGroups.ok /\ LogGroups.open /\ Len(LogGroups.sessions) = 1
    /\ st = "done"
    /\ Len(out) = 2
    /\ out[1] = LogGroups.sessions[1]
    /\ out[1].start.utc < out[1].end.utc
    /\ out[2].end.utc = now
    /\ out[2].start.utc < now

----------------------------------------------------------------------------
(* parser.rs: NaiveSession::split_at_days *)

Max(a, b) == IF a >= b THEN a ELSE b
Min(a, b) == IF a <= b THEN a ELSE b

\* NaiveDateTime::date: the civil day of a civil tick
date(t) == t \div DayLen

\* NaiveDate::and_time(NaiveTime::MIN): the midnight that begins day d
and_time_min(d) == d * DayLen

\* the iterator with take_while's `<` written `<=`
RECURSIVE SplitFromInclusive(_, _)
SplitFromInclusive(s, d) ==
    IF and_time_min(d) <= s.end
    THEN <<[start |-> Max(s.start, and_time_min(d)),
            end |-> Min(s.end, and_time_min(d + 1)),
            description |-> s.description]>> \o SplitFromInclusive(s, d + 1)
    ELSE <<>>

\* the iterator with the end of a slice not clipped to the session's end
RECURSIVE SplitFromUnclipped(_, _)
SplitFromUnclipped(s, d) ==
    IF and_time_min(d) < s.end
    THEN <<[start |-> Max(s.start, and_time_min(d)),
            end |-> and_time_min(d + 1),
            description |-> s.description]>> \o SplitFromUnclipped(s, d + 1)
    ELSE <<>>

\* iter_days().zip(iter_days().skip(1)).take_while(..).map(..), from day d on
RECURSIVE SplitFrom(_, _)
SplitFrom(s, d) ==
    IF and_time_min(d) < s.end
    THEN <<[start |-> Max(s.start, and_time_min(d)),
            end |-> Min(s.end, and_time_min(d + 1)),
            description |-> s.description]>> \o SplitFrom(s, d + 1)
    ELSE <<>>

split_at_days(s) == SplitFrom(s, date(s.start))

\* split_at_days(..).collect()
SplitAtDays ==
    /\ ~splitDone
    /\ pieces' = split_at_days(civil)
    /\ splitDone' = TRUE
    /\ UNCHANGED civil
    /\ UNCHANGED parserVars
    /\ UNCHANGED sumVars
    /\ UNCHANGED extVars

Descriptions == { <<>>, <<"a">>, <<"b">> }

InitSplit ==
    /\ civil \in [start : 0..MaxCivil, end : 0..MaxCivil, description : Descriptions]
    /\ pieces = <<>>
    /\ splitDone = FALSE
    /\ IdleParser
    /\ IdleSum
    /\ IdleExt

NextSplit == SplitAtDays

SpecSplit == InitSplit /\ [][NextSplit]_vars

----------------------------------------------------------------------------
(* C7: for a civil session with start < end, split_at_days emits one        *)
(* sub-session per calendar day the session touches, in strictly increasing *)
(* date order, each [max(start, midnight(d)), min(end, midnight(d+1))) with *)
(* the description; neighbours meet at a midnight, the first begins at      *)
(* start and the last ends at end.                                          *)

\* the days [start, end) touches
DaysTouched(s) ==
    {d \in date(s.start)..date(s.end) :
        and_time_min(d) < s.end /\ s.start < and_time_min(d + 1)}

C7_SplitTilesSession ==
    splitDone /\ civil.start < civil.end =>
        LET n == Len(pieces)
            day(i) == date(civil.start) + i - 1
        IN  /\ n = Cardinality(DaysTouched(civil))
            /\ {day(i) : i \in 1..n} = DaysTouched(civil)
            /\ \A i \in 1..n :
                 pieces[i] = [start |-> Max(civil.start, and_time_min(day(i))),
                              end |-> Min(civil.end, and_time_min(day(i) + 1)),
                              description |-> civil.description]
            /\ \A i \in 1..(n - 1) :
                 /\ pieces[i].end = pieces[i + 1].start
                 /\ pieces[i].end = and_time_min(day(i) + 1)
                 /\ date(pieces[i].start) < date(pieces[i + 1].start)
            /\ n >= 1
            /\ pieces[1].start = civil.start
            /\ pieces[n].end = civil.end

\* a session that begins inside one day and ends inside the day after next
C7_Witness ==
    /\ splitDone
    /\ civil.start < civil.end
    /\ Len(pieces) = 3
    /\ civil.start # and_time_min(date(civil.start))
    /\ civil.end # and_time_min(date(civil.end))

(* C8 as claimed: for every input with start <= end, split_at_days emits no *)
(* sub-session whose end equals its start: none for the day after a session *)
(* that ends at midnight, none for a session whose start equals its end.    *)
C8_NoEmptySlice ==
    splitDone /\ civil.start <= civil.end =>
        \A i \in 1..Len(pieces) : pieces[i].end # pieces[i].start

(* C8, amended: for every input with start < end, split_at_days emits no    *)
(* sub-session whose end equals its start, and a session that ends exactly  *)
(* at a midnight gets no slice for the day that midnight begins; a session  *)
(* whose start equals its end gets one slice of length zero, or none when   *)
(* it lies exactly on a midnight.                                           *)
C8_NoEmptySliceUnlessEmptySession ==
    splitDone =>
        /\ civil.start < civil.end =>
             /\ \A i \in 1..Len(pieces) : pieces[i].start < pieces[i].end
             /\ civil.end = and_time_min(date(civil.end)) =>
                  \A i \in 1..Len(pieces) : date(pieces[i].start) < date(civil.end)
        /\ civil.start = civil.end =>
             pieces = IF civil.start = and_time_min(date(civil.start))
                      THEN <<>> ELSE <<civil>>

\* a session of exactly one day, midnight to midnight: one slice
C8_Witness ==
    /\ splitDone
    /\ civil.start = and_time_min(date(civil.start))
    /\ civil.end = civil.start + DayLen
    /\ pieces = <<civil>>

----------------------------------------------------------------------------
(* parser.rs: Session::duration, SessionTZ::with_timezone and naive_local *)

\* Session::duration: end - start of the instants
Duration(s) == s.end.utc - s.start.utc

\* DateTime::with_timezone: the same instant at another offset
DateTimeWithTimezone(dt, off) == [utc |-> dt.utc, off |-> off]

\* DateTime::naive_local: the wall-clock reading at the value's own offset
DateTimeNaiveLocal(dt) == dt.utc + dt.off

\* the Session left with the offsets its markers carried
keep_timezone(s, tz2) == s

with_timezone(s, tz2) ==
    [start |-> DateTimeWithTimezone(s.start, tz2),
     end |-> DateTimeWithTimezone(s.end, tz2),
     description |-> s.description]

naive_local(s) ==
    [start |-> DateTimeNaiveLocal(s.start),
     end |-> DateTimeNaiveLocal(DateTimeWithTimezone(s.end, s.start.off)),
     description |-> s.description]

\* NaiveSession::duration (not in parser.rs as given): end - start, civil
NaiveDuration(s) == s.end - s.start

\* sessions.with_timezone(tz).naive_local().cut_at_days() for one Session
\* (the iterator adapters are not in parser.rs as given)
cut_at_days(s, timezone) == split_at_days(naive_local(with_timezone(s, timezone)))

----------------------------------------------------------------------------
(* summary.rs: Summary::summarize *)

ZeroDay == [duration |-> 0, descriptions |-> {}]

\* BTreeMap::first_entry().key(): the least date present
FirstKey(m) == CHOOSE d \in DOMAIN m : \A e \in DOMAIN m : d <= e

\* BTreeMap::last_entry().key(): the greatest date present
LastKey(m) == CHOOSE d \in DOMAIN m : \A e \in DOMAIN m : e <= d

\* BTreeMap::insert: the value of an existing key is replaced
Insert(m, k, v) == [d \in (DOMAIN m) \cup {k} |-> IF d = k THEN v ELSE m[d]]

\* the bucket opened for every sub-session
OpenBucketAlways(m, d) == Insert(m, d, ZeroDay)

\* lines 112-124: a zeroed Day is inserted unless the last entry has the date
OpenBucket(m, d) ==
    IF DOMAIN m = {} \/ LastKey(m) # d THEN Insert(m, d, ZeroDay) ELSE m

\* the description inserted without the is_empty test
AccumulateKeepEmpty(m, duration, description) ==
    LET k == LastKey(m)
    IN  [m EXCEPT ![k] = [duration |-> @.duration + duration,
                          descriptions |-> @.descriptions \cup {description}]]

\* lines 126-131: the last entry takes the duration and the description
Accumulate(m, duration, description) ==
    LET k == LastKey(m)
    IN  [m EXCEPT ![k] =
            [duration |-> @.duration + duration,
             descriptions |-> IF description # <<>>
                              THEN @.descriptions \cup {description}
                              ELSE @.descriptions]]

\* The next item of the flattened iterator: the head of `pend`, or the first
\* slice of the next Session that has one.  eof when the Sessions run out.
RECURSIVE PullNext(_, _, _, _)
PullNext(inp, k, pend, timezone) ==
    IF pend # <<>>
    THEN [eof |-> FALSE, sub |-> Head(pend), taken |-> k, pending |-> Tail(pend)]
    ELSE IF k >= Len(inp)
    THEN [eof |-> TRUE, sub |-> ZeroDay, taken |-> k, pending |-> <<>>]
    ELSE PullNext(inp, k + 1, cut_at_days(inp[k + 1], timezone), timezone)

\* One turn of the for loop of summarize, or its end.
SummarizeNext ==
    /\ sumst = "run"
    /\ LET n == PullNext(input, taken, pending, tz)
       IN  /\ taken' = n.taken
           /\ pending' = n.pending
           /\ IF n.eof
              THEN sumst' = "done" /\ days' = days
              ELSE IF NaiveDuration(n.sub) < 0      \* to_std().unwrap()
              THEN sumst' = "panic" /\ days' = days
              ELSE /\ sumst' = "run"
                   /\ days' = Accumulate(OpenBucket(days, date(n.sub.start)),
                                         NaiveDuration(n.sub), n.sub.description)
    /\ UNCHANGED <<input, tz>>
    /\ UNCHANGED parserVars
    /\ UNCHANGED splitVars
    /\ UNCHANGED extVars

\* the offsets of the target timezones
Offsets == {0, 1}

\* Sessions with start <= end (to_std().unwrap() panics on any other).
\* with_timezone replaces the offsets the markers carried, so every Session
\* here carries offset 0.
SessionSet ==
    { [start |-> [utc |-> a, off |-> 0], end |-> [utc |-> b, off |-> 0],
       description |-> d] :
         a \in 0..MaxUtc, b \in 0..MaxUtc, d \in Descriptions } \
    { s \in [start : [utc : 0..MaxUtc, off : {0}], end : [utc : 0..MaxUtc, off : {0}],
             description : Descriptions] : s.start.utc > s.end.utc }

InitSum ==
    /\ input \in SeqsUpTo(SessionSet, MaxSessions)
    /\ tz \in Offsets
    /\ taken = 0
    /\ pending = <<>>
    /\ days = <<>>
    /\ sumst = "run"
    /\ IdleParser
    /\ IdleSplit
    /\ IdleExt

NextSum == SummarizeNext

SpecSum == InitSum /\ [][NextSum]_vars

----------------------------------------------------------------------------
(* What summarize was given, for the claims *)

RECURSIVE Flatten(_)
Flatten(ss) == IF ss = <<>> THEN <<>> ELSE Head(ss) \o Flatten(Tail(ss))

\* every sub-session of the input, in the order the loop meets them
AllSubs == Flatten([i \in 1..Len(input) |-> cut_at_days(input[i], tz)])

\* the dates of the sub-sessions never go back
DatesAscend(subs) ==
    \A i, j \in 1..Len(subs) : i <= j => date(subs[i].start) <= date(subs[j].start)

\* the durations of Sessions, summed
RECURSIVE SumDuration(_)
SumDuration(ss) == IF ss = <<>> THEN 0 ELSE Duration(Head(ss)) + SumDuration(Tail(ss))

\* the durations of sub-sessions, summed
RECURSIVE SumNaiveDuration(_)
SumNaiveDuration(ss) ==
    IF ss = <<>> THEN 0 ELSE NaiveDuration(Head(ss)) + SumNaiveDuration(Tail(ss))

RECURSIVE SumDays(_, _)
SumDays(m, keys) ==
    IF keys = {} THEN 0
    ELSE LET d == CHOOSE x \in keys : TRUE
         IN  m[d].duration + SumDays(m, keys \ {d})

TotalOfDays == SumDays(days, DOMAIN days)

\* the sub-sessions of day d
SubsOf(subs, d) == SelectSeq(subs, LAMBDA x : date(x.start) = d)

\* the Sessions start in file order: no start is earlier than the one before
StartsAscend ==
    \A i, j \in 1..Len(input) : i <= j => input[i].start.utc <= input[j].start.utc

(* C9 as claimed: for any Sessions with start <= end in file order,         *)
(* overlapping ones and ones of several days included, the durations of the *)
(* Day Summaries sum to the durations of the Sessions.                      *)
C9_SumPreserved ==
    sumst = "done" /\ StartsAscend => TotalOfDays = SumDuration(input)

(* C9, amended: when the sub-sessions reach the loop in non-decreasing date *)
(* order (and the target timezone is a fixed offset), the durations of the  *)
(* Day Summaries sum to the durations of the Sessions.                      *)
C9_SumPreservedInDateOrder ==
    sumst = "done" /\ DatesAscend(AllSubs) =>
        TotalOfDays = SumDuration(input)

\* two Sessions, one of them cut at a midnight, summed without loss
C9_Witness ==
    /\ sumst = "done"
    /\ DatesAscend(AllSubs)
    /\ Len(input) = 2
    /\ Len(AllSubs) = 3
    /\ Cardinality(DOMAIN days) = 2
    /\ \A i \in 1..2 : Duration(input[i]) > 0
    /\ TotalOfDays = SumDuration(input)

\* the sub-sessions of day d with a description
Described(d) ==
    {j \in 1..Len(AllSubs) :
        date(AllSubs[j].start) = d /\ AllSubs[j].description # <<>>}

\* every Day Summary holds no empty text and exactly the distinct
\* descriptions of its day's sub-sessions
DescriptionsOfDay ==
    \A d \in DOMAIN days :
        /\ <<>> \notin days[d].descriptions
        /\ days[d].descriptions = {AllSubs[j].description : j \in Described(d)}

\* every Day Summary holds the summed durations of its day's sub-sessions,
\* with or without a description
DurationsOfDay ==
    \A d \in DOMAIN days :
        days[d].duration = SumNaiveDuration(SubsOf(AllSubs, d))

(* C10 as claimed: after summarize, a Day Summary's descriptions never hold *)
(* the empty text and are exactly the distinct non-empty descriptions of    *)
(* that day's sub-sessions.                                                 *)
C10_DescriptionsOfDay ==
    sumst = "done" /\ StartsAscend => DescriptionsOfDay

(* C10, amended: when the sub-sessions reach the loop in non-decreasing     *)
(* date order, a Day Summary's descriptions never hold the empty text and   *)
(* are exactly the distinct non-empty descriptions of that day's            *)
(* sub-sessions; a sub-session without a description adds none, and its    *)
(* duration still counts.                                                   *)
C10_DescriptionsOfDayInDateOrder ==
    sumst = "done" /\ DatesAscend(AllSubs) => DescriptionsOfDay /\ DurationsOfDay

\* one day with the same text in two sub-sessions, kept once
C10_Witness ==
    /\ sumst = "done"
    /\ DatesAscend(AllSubs)
    /\ \E d \in DOMAIN days :
          /\ days[d].descriptions = {<<"a">>}
          /\ \E i, j \in 1..Len(AllSubs) :
                /\ i # j
                /\ date(AllSubs[i].start) = d /\ date(AllSubs[j].start) = d
                /\ AllSubs[i].description = <<"a">>
                /\ AllSubs[j].description = <<"a">>
                /\ NaiveDuration(AllSubs[i]) > 0
                /\ NaiveDuration(AllSubs[j]) > 0

----------------------------------------------------------------------------
(* The calendar of NaiveDate.  A date is a number of days; day 0 is the    *)
(* first of January of EpochYear.                                          *)

EpochYear == 2001       \* the year day 0 begins
EpochWeekday == 0       \* the weekday of day 0, in days since Monday
MaxYears == 2           \* years the calendar of the model spans

\* Weekday::num_days_from_monday ranges over the days of a week
DaysPerWeek == 7

\* MonthId::new: assert!(month < 12)
MonthsPerYear == 12

IsLeapYear(y) == y % 4 = 0 /\ (y % 100 # 0 \/ y % 400 = 0)

\* m0 is the month counted from zero, as month0() gives it
DaysInMonth(y, m0) ==
    IF m0 = 1 THEN (IF IsLeapYear(y) THEN 29 ELSE 28)
    ELSE IF m0 \in {3, 5, 8, 10} THEN 30 ELSE 31

RECURSIVE DaysBeforeMonth(_, _)
DaysBeforeMonth(y, m0) ==
    IF m0 = 0 THEN 0 ELSE DaysInMonth(y, m0 - 1) + DaysBeforeMonth(y, m0 - 1)

DaysInYear(y) == DaysBeforeMonth(y, MonthsPerYear)

RECURSIVE DaysBeforeYear(_)
DaysBeforeYear(y) ==
    IF y <= EpochYear THEN 0 ELSE DaysInYear(y - 1) + DaysBeforeYear(y - 1)

\* NaiveDate::from_ymd_opt(y, m, d).unwrap(), m and d counted from one
from_ymd(y, m, d) == DaysBeforeYear(y) + DaysBeforeMonth(y, m - 1) + d - 1

\* Datelike::year_ce().1 of a date of the common era
year_ce(d) ==
    CHOOSE y \in EpochYear..(EpochYear + MaxYears) :
        DaysBeforeYear(y) <= d /\ d < DaysBeforeYear(y + 1)

\* Datelike::month0
month0(d) ==
    CHOOSE m \in 0..(MonthsPerYear - 1) :
        /\ from_ymd(year_ce(d), m + 1, 1) <= d
        /\ d < from_ymd(year_ce(d), m + 1, 1) + DaysInMonth(year_ce(d), m)

\* Datelike::weekday().num_days_from_monday()
num_days_from_monday(d) == (EpochWeekday + d) % DaysPerWeek

----------------------------------------------------------------------------
(* summary.rs: FixedWeek, MonthId and DateExt *)

\* DateExt::real_week: FixedWeek(self.week(Weekday::Mon)).  A NaiveWeek
\* keeps the date it was asked for and the weekday weeks start on.
real_week(d) == [date |-> d, start |-> 0]

\* NaiveWeek::first_day: back from the date to the start weekday
NaiveWeekFirstDay(w) ==
    w.date - ((num_days_from_monday(w.date) - w.start + DaysPerWeek) % DaysPerWeek)

\* NaiveWeek::last_day: six days after the first
NaiveWeekLastDay(w) == NaiveWeekFirstDay(w) + (DaysPerWeek - 1)

\* FixedWeek::first_day
FixedWeek_first_day(w) == NaiveWeekFirstDay(w)

\* DateExt::month_id
month_id(d) == [year |-> year_ce(d), month |-> month0(d)]

\* MonthId::first_day
MonthId_first_day(id) == from_ymd(id.year, id.month + 1, 1)

\* NaiveDate::checked_add_months(Months::new(1)) of the first day of a month
AddOneMonth(id) ==
    IF id.month + 1 = MonthsPerYear
    THEN from_ymd(id.year + 1, 1, 1)
    ELSE from_ymd(id.year, id.month + 2, 1)

\* MonthId::last_day: first_day + 1 month - 1 day
MonthId_last_day(id) == AddOneMonth(id) - 1

----------------------------------------------------------------------------
(* summary.rs: Summary::duration and Summary::week_duration *)

Unbounded == [kind |-> "Unbounded", date |-> 0]
Included(d) == [kind |-> "Included", date |-> d]

\* a..=b
RangeInclusive(a, b) == [lo |-> Included(a), hi |-> Included(b)]

\* a range whose end is left out
ContainsHalfOpen(range, d) ==
    /\ range.lo.kind = "Included" => range.lo.date <= d
    /\ range.hi.kind = "Included" => d < range.hi.date

\* RangeBounds::contains, for the bounds the program builds
Contains(range, d) ==
    /\ range.lo.kind = "Included" => range.lo.date <= d
    /\ range.hi.kind = "Included" => d <= range.hi.date

\* BTreeMap::range panics when the start of the range is above its end
RangePanics(range) ==
    /\ range.lo.kind = "Included"
    /\ range.hi.kind = "Included"
    /\ range.lo.date > range.hi.date

\* Summary::duration: self.days.range(range).map(|(_, day)| day.duration).sum()
SummaryDuration(m, range) ==
    SumDays(m, {d \in DOMAIN m : Contains(range, d)})

\* Summary::week_duration: the range handed to duration
WeekRange(w) == RangeInclusive(NaiveWeekFirstDay(w), NaiveWeekLastDay(w))

\* main.rs, the Summary command: the range of the month heading
MonthRange(id) == RangeInclusive(MonthId_first_day(id), MonthId_last_day(id))

\* one call of Summary::duration with `range`, asked as `kind` about `arg`
Ask(kind, arg, range) ==
    /\ qst = "idle"
    /\ query' = <<[kind |-> kind, arg |-> arg, range |-> range]>>
    /\ IF RangePanics(range)
       THEN qst' = "panic" /\ total' = <<>>
       ELSE qst' = "done" /\ total' = <<SummaryDuration(days, range)>>
    /\ UNCHANGED sumVars
    /\ UNCHANGED besidesQuery

\* the dates the Summaries and the queries of the model speak of: the days
\* around the first two weeks, the end of January and the end of the year
QueryDates == {0, 6, 7, 13, 30, 31, 364, 365}

MaxDays == 3            \* Day Summaries in the Summary that is queried
MaxDur == 2             \* longest duration of one Day Summary, in ticks

BoundSet == {Unbounded} \cup {Included(d) : d \in QueryDates}

\* summary.duration(range)
QueryDuration ==
    \E lo \in BoundSet, hi \in BoundSet : Ask("duration", 0, [lo |-> lo, hi |-> hi])

\* summary.week_duration(date.real_week())
QueryWeek ==
    \E d \in QueryDates : Ask("week", d, WeekRange(real_week(d)))

\* summary.duration(month.first_day()..=month.last_day())
QueryMonth ==
    \E d \in QueryDates : Ask("month", d, MonthRange(month_id(d)))

SummarySet ==
    UNION { [S -> [duration : 1..MaxDur, descriptions : {{}}]] :
              S \in {T \in SUBSET QueryDates : Cardinality(T) <= MaxDays} }

InitQuery ==
    /\ days \in SummarySet
    /\ input = <<>>
    /\ tz = 0
    /\ taken = 0
    /\ pending = <<>>
    /\ sumst = "done"
    /\ IdleQuery
    /\ IdleBesidesQuery

NextQuery == QueryDuration \/ QueryWeek \/ QueryMonth

SpecQuery == InitQuery /\ [][NextQuery]_vars

\* the dates the claim counts for the query: those within the bounds, the
\* seven from the Monday on or before the date, or those of the date's month
DatesAsked(q) ==
    IF q.kind = "duration"
    THEN {d \in DOMAIN days :
             /\ q.range.lo.kind = "Included" => q.range.lo.date <= d
             /\ q.range.hi.kind = "Included" => d <= q.range.hi.date}
    ELSE IF q.kind = "week"
    THEN {d \in DOMAIN days :
             \E mon \in (q.arg - 6)..q.arg :
                 /\ num_days_from_monday(mon) = 0
                 /\ d \in mon..(mon + 6)}
    ELSE {d \in DOMAIN days :
             year_ce(d) = year_ce(q.arg) /\ month0(d) = month0(q.arg)}

(* C11 as claimed: Summary::duration(range) returns the sum of the         *)
(* durations of exactly the Day Summaries whose date lies in the range,    *)
(* bounded ends inclusive, unbounded ends excluding nothing, zero when no  *)
(* day is in range; week_duration is that sum over Monday to Sunday and    *)
(* the month total that sum over the month's first to last day.            *)
C11_DurationOfRange ==
    qst # "idle" =>
        /\ qst = "done"
        /\ total = <<SumDays(days, DatesAsked(query[1]))>>

(* C11, amended: for a range whose lower bound is not above its upper      *)
(* bound, Summary::duration(range) returns the sum of the durations of     *)
(* exactly the Day Summaries whose date lies in the range, bounded ends    *)
(* inclusive, unbounded ends excluding nothing, zero when no day is in     *)
(* range; for a lower bound above the upper bound it panics and returns    *)
(* nothing.  week_duration is that sum over Monday to Sunday and the month *)
(* total that sum over the month's first to last day; neither panics.      *)
C11_DurationOfOrderedRange ==
    qst # "idle" =>
        IF query[1].kind = "duration" /\ RangePanics(query[1].range)
        THEN qst = "panic" /\ total = <<>>
        ELSE /\ qst = "done"
             /\ total = <<SumDays(days, DatesAsked(query[1]))>>

\* a week asked from its Sunday that counts its Monday and its Sunday and
\* leaves out the Monday after
C11_Witness ==
    /\ qst = "done"
    /\ query[1].kind = "week"
    /\ num_days_from_monday(query[1].arg) = 6
    /\ {query[1].arg - 6, query[1].arg, query[1].arg + 1} \subseteq DOMAIN days
    /\ total = <<days[query[1].arg - 6].duration + days[query[1].arg].duration>>

----------------------------------------------------------------------------
(* summary.rs: the comparisons of FixedWeek *)

MaxWeekDate == 15       \* latest date whose week is compared

\* Ord::cmp of two NaiveDates
CmpDate(a, b) == IF a < b THEN "Less" ELSE IF a = b THEN "Equal" ELSE "Greater"

\* Ord for FixedWeek: the first days are compared
FixedWeekCmp(a, b) == CmpDate(NaiveWeekFirstDay(a), NaiveWeekFirstDay(b))

\* the equality NaiveWeek derives: the fields are compared
NaiveWeekEq(a, b) == a.date = b.date /\ a.start = b.start

\* PartialEq for FixedWeek: self.cmp(other) == Ordering::Equal
FixedWeekEq(a, b) == FixedWeekCmp(a, b) = "Equal"

\* real_week of every date, and every comparison of two of the weeks
RealWeeks ==
    /\ weeks = <<>>
    /\ weeks' = [i \in DOMAIN wdates |-> real_week(wdates[i])]
    /\ weekEq' = [i \in DOMAIN wdates |->
                    [j \in DOMAIN wdates |->
                        FixedWeekEq(real_week(wdates[i]), real_week(wdates[j]))]]
    /\ weekCmp' = [i \in DOMAIN wdates |->
                     [j \in DOMAIN wdates |->
                        FixedWeekCmp(real_week(wdates[i]), real_week(wdates[j]))]]
    /\ UNCHANGED wdates
    /\ UNCHANGED sumVars
    /\ UNCHANGED besidesWeek

InitWeek ==
    /\ wdates \in [1..3 -> 0..MaxWeekDate]
    /\ weeks = <<>>
    /\ weekEq = <<>>
    /\ weekCmp = <<>>
    /\ IdleSum
    /\ IdleBesidesWeek

NextWeek == RealWeeks

SpecWeek == InitWeek /\ [][NextWeek]_vars

\* the Monday of the Monday-to-Sunday week d falls in
MondayOf(d) ==
    CHOOSE mon \in (d - 6)..d : num_days_from_monday(mon) = 0

(* C12: a.real_week() == b.real_week() if and only if a and b fall in the  *)
(* same Monday-to-Sunday week, that is their weeks have the same Monday;   *)
(* the weeks are ordered as those Mondays are, so the equality is          *)
(* reflexive, symmetric and transitive and agrees with cmp giving Equal.   *)
C12_WeekEqualityByMonday ==
    weeks # <<>> =>
        \A i, j \in DOMAIN wdates :
            /\ weekEq[i][j] <=> MondayOf(wdates[i]) = MondayOf(wdates[j])
            /\ weekCmp[i][j] = CmpDate(MondayOf(wdates[i]), MondayOf(wdates[j]))
            /\ weekEq[i][j] <=> weekCmp[i][j] = "Equal"
            /\ weekEq[i][i]
            /\ weekEq[i][j] => weekEq[j][i]
            /\ \A k \in DOMAIN wdates :
                   weekEq[i][j] /\ weekEq[j][k] => weekEq[i][k]

\* three dates: two different days of one week, equal as weeks, and a day
\* of the week after, greater than both
C12_Witness ==
    /\ weeks # <<>>
    /\ wdates[1] # wdates[2]
    /\ weekEq[1][2]
    /\ ~weekEq[2][3]
    /\ wdates[3] = wdates[2] + 1
    /\ weekCmp[1][3] = "Less"

----------------------------------------------------------------------------
(* binnacle_body_parser.rs: parse *)

MaxBody == 5            \* longest description given to parse, in characters

\* the characters of the descriptions of the model
BodyChars == {"a", "b", ":", " "}

\* the separator ": "
Separator == <<":", " ">>

\* whether the separator stands at position i of s
SeparatorAt(s, i) ==
    i + 1 <= Len(s) /\ <<s[i], s[i + 1]>> = Separator

\* the positions the separator stands at
Occurrences(s) == {i \in 1..Len(s) : SeparatorAt(s, i)}

\* str::rfind: the last occurrence
FindLast(s) ==
    IF Occurrences(s) = {} THEN 0
    ELSE CHOOSE i \in Occurrences(s) : \A j \in Occurrences(s) : j <= i

\* body_str.find(": "): the first occurrence, 0 for None; the text before
\* it has Find(s) - 1 characters
Find(s) ==
    IF Occurrences(s) = {} THEN 0
    ELSE CHOOSE i \in Occurrences(s) : \A j \in Occurrences(s) : i <= j

\* parse: an Option is <<>> for None and <<x>> for Some(x)
parse(body_str) ==
    IF Find(body_str) # 0
    THEN [sub_project |-> <<SubSeq(body_str, 1, Find(body_str) - 1)>>,
          subject |-> SubSeq(body_str, Find(body_str) + 2, Len(body_str))]
    ELSE [sub_project |-> <<>>, subject |-> body_str]

\* one call of parse; ParseError has no variant, the result is always Ok
Parse ==
    /\ body = <<>>
    /\ body' = <<parse(descr)>>
    /\ UNCHANGED descr
    /\ UNCHANGED sumVars
    /\ UNCHANGED besidesBody

InitBody ==
    /\ descr \in SeqsUpTo(BodyChars, MaxBody)
    /\ body = <<>>
    /\ IdleSum
    /\ IdleBesidesBody

NextBody == Parse

SpecBody == InitBody /\ [][NextBody]_vars

\* whether text t holds the separator anywhere
HoldsSeparator(t) ==
    \E i \in 1..Len(t) : i < Len(t) /\ t[i] = ":" /\ t[i + 1] = " "

(* C13: parse never fails and splits at the first occurrence of the        *)
(* separator ": " only: when the separator occurs, the category is the     *)
(* text before the first occurrence (so it holds no separator), the        *)
(* subject is all that follows it (further separators included) and        *)
(* category + ": " + subject is the input; when it does not occur, there   *)
(* is no category and the subject is the whole input.                      *)
C13_SplitAtFirstSeparator ==
    body # <<>> =>
        IF HoldsSeparator(descr)
        THEN /\ Len(body[1].sub_project) = 1
             /\ ~HoldsSeparator(body[1].sub_project[1])
             /\ descr = body[1].sub_project[1] \o <<":", " ">> \o body[1].subject
        ELSE /\ body[1].sub_project = <<>>
             /\ body[1].subject = descr

\* "a: : b": the category is "a" and the subject keeps the second separator
C13_Witness ==
    /\ body # <<>>
    /\ body[1].sub_project = << <<"a">> >>
    /\ HoldsSeparator(body[1].subject)

----------------------------------------------------------------------------
(* main.rs: the WorkTimeAnalysis command.  A NaiveTime and a TimeDelta are *)
(* numbers of nanoseconds; NanosPerTick of them make one tick.             *)

NanosPerTick == 2       \* nanoseconds in one tick

\* const ANALYSIS_INTERVAL, in ticks
ANALYSIS_INTERVAL == 1

\* const SLOTS_PER_DAY
SLOTS_PER_DAY == DayLen \div ANALYSIS_INTERVAL

\* TimeDelta::days(1), in nanoseconds
DayNanos == DayLen * NanosPerTick

\* NaiveDateTime::time: the time of day of a civil tick
NaiveTimeOf(t) == (t % DayLen) * NanosPerTick

\* NaiveTime + TimeDelta and NaiveTime - TimeDelta wrap around the day
NaiveTimeAdd(t, delta) == (t + delta + DayNanos) % DayNanos

\* NaiveTime::MIN + ANALYSIS_INTERVAL * i
interval_start(i) == NaiveTimeAdd(0, ANALYSIS_INTERVAL * NanosPerTick * i)

\* interval_start + ANALYSIS_INTERVAL
interval_end(i) == NaiveTimeAdd(interval_start(i), ANALYSIS_INTERVAL * NanosPerTick)

\* an end at 00:00 read as the end of the day, 24:00
fix_end_24(t) == IF t = 0 THEN DayNanos ELSE t

\* the closure fix_end: NaiveTime::MIN becomes MIN - 1ns, the last
\* nanosecond of the day
fix_end(t) == IF t = 0 THEN NaiveTimeAdd(0, 0 - 1) ELSE t

\* the overlap of one sub-session with slot i (counted from zero)
overlap(session, i) ==
    Max(Min(fix_end(session.end), fix_end(interval_end(i)))
          - Max(session.start, interval_start(i)), 0)

\* .filter(|s| (from, to).contains(&s.start.with_timezone(&timezone).date_naive()))
Filtered(inp, range, timezone) ==
    SelectSeq(inp, LAMBDA s :
        Contains(range, date(DateTimeNaiveLocal(DateTimeWithTimezone(s.start, timezone)))))

\* .map(|s| s.naive_local()).flat_map(|s| s.split_at_days())
HistSubs(inp, range, timezone) ==
    Flatten([k \in 1..Len(Filtered(inp, range, timezone)) |->
                split_at_days(naive_local(Filtered(inp, range, timezone)[k]))])

\* .map(|s| s.start.time()..s.end.time())
TimeRange(s) == [start |-> NaiveTimeOf(s.start), end |-> NaiveTimeOf(s.end)]

\* One turn of `for session in sessions`, with its inner loop over the
\* slots, or the end of the loop.
AnalysisNext ==
    /\ hst = "run"
    /\ LET subs == HistSubs(input, hrange, tz)
       IN  IF hidx = Len(subs)
           THEN hst' = "done" /\ UNCHANGED <<hidx, credit, results>>
           ELSE /\ hst' = "run"
                /\ hidx' = hidx + 1
                /\ credit' = [i \in 1..SLOTS_PER_DAY |->
                                overlap(TimeRange(subs[hidx + 1]), i - 1)]
                /\ results' = [i \in 1..SLOTS_PER_DAY |->
                                 results[i] + overlap(TimeRange(subs[hidx + 1]), i - 1)]
    /\ UNCHANGED hrange
    /\ UNCHANGED sumVars
    /\ UNCHANGED besidesHist

\* Sessions with start <= end whose two markers carry the same offset
HistSessionSet ==
    { s \in [start : [utc : 0..MaxUtc, off : Offsets],
             end : [utc : 0..MaxUtc, off : Offsets],
             description : {<<>>}] :
        s.start.utc <= s.end.utc /\ s.start.off = s.end.off }

\* --from and --to: a date, or nothing
HistBounds == {Unbounded, Included(1)}

InitHist ==
    /\ input \in SeqsUpTo(HistSessionSet, MaxSessions)
    /\ tz \in Offsets
    /\ taken = 0
    /\ pending = <<>>
    /\ days = <<>>
    /\ sumst = "run"
    /\ hrange \in [lo : HistBounds, hi : HistBounds]
    /\ hidx = 0
    /\ credit = <<>>
    /\ results = [i \in 1..SLOTS_PER_DAY |-> 0]
    /\ hst = "run"
    /\ IdleBesidesHist

NextHist == AnalysisNext

SpecHist == InitHist /\ [][NextHist]_vars

\* the sub-session the outer loop took last
LastSub == HistSubs(input, hrange, tz)[hidx]

\* max(0, min(end, slot_end) - max(start, slot_start)) with an end at
\* midnight counted as 24:00, for slot i counted from zero
CreditClaimed(r, i) ==
    Max(Min(fix_end_24(r.end), ANALYSIS_INTERVAL * NanosPerTick * (i + 1))
          - Max(r.start, ANALYSIS_INTERVAL * NanosPerTick * i), 0)

RECURSIVE SumSeq(_)
SumSeq(q) == IF q = <<>> THEN 0 ELSE Head(q) + SumSeq(Tail(q))

(* C14 as claimed: every day-bounded sub-session credits slot i exactly    *)
(* max(0, min(end, slot_end) - max(start, slot_start)) on the time-of-day  *)
(* axis, an end at local midnight counting as 24:00; so its credits sum to *)
(* its duration, a sub-session ending at midnight gives nothing extra to   *)
(* the first slot and the full overlap to the last, and a session of one   *)
(* full day credits every slot exactly the slot width, a day in total.     *)
C14_SlotCredits ==
    /\ credit # <<>> =>
          /\ \A i \in 1..SLOTS_PER_DAY :
                 credit[i] = CreditClaimed(TimeRange(LastSub), i - 1)
          /\ SumSeq(credit) = NaiveDuration(LastSub) * NanosPerTick
    /\ /\ hst = "done"
       /\ Len(input) = 1
       /\ Filtered(input, hrange, tz) = input
       /\ Duration(input[1]) = DayLen
       => /\ \A i \in 1..SLOTS_PER_DAY :
                 results[i] = ANALYSIS_INTERVAL * NanosPerTick
          /\ SumSeq(results) = DayNanos

----------------------------------------------------------------------------
(* binnacle_2.rs: process and format.  A String is a sequence of tokens;   *)
(* the token Label is the whole text of the label of the uncategorized.    *)

\* "sin categoría"
Label == "sin categoria"

\* the first byte of a token: Strings are ordered byte by byte, and no
\* other token begins with the first byte of the label
FirstByte(c) ==
    CASE c = " " -> 32 [] c = ":" -> 58 [] c = "a" -> 97 [] c = "b" -> 98
      [] OTHER -> 115

\* Ord for String: a < b
LexLess(a, b) ==
    \E k \in 1..Len(b) :
        /\ k <= Len(a) + 1
        /\ SubSeq(a, 1, k - 1) = SubSeq(b, 1, k - 1)
        /\ (k = Len(a) + 1 \/ FirstByte(a[k]) < FirstByte(b[k]))

\* .map(|s| SessionWithBody { body: parse(&s.description).unwrap().to_owned(), session: s })
SessionWithBody(s) == [session |-> s, body |-> parse(s.description)]

\* sessions.with_timezone(timezone).naive_local().cut_at_days().map(..)
WithBodies(inp, timezone) ==
    LET subs == Flatten([k \in 1..Len(inp) |-> cut_at_days(inp[k], timezone)])
    IN  [k \in 1..Len(subs) |-> SessionWithBody(subs[k])]

\* Itertools::chunk_by: the runs of consecutive equal keys, from index i on
RECURSIVE Runs(_, _)
Runs(keys, i) ==
    IF i > Len(keys) THEN <<>>
    ELSE LET j == CHOOSE j \in i..Len(keys) :
                    /\ \A k \in i..j : keys[k] = keys[i]
                    /\ j = Len(keys) \/ keys[j + 1] # keys[i]
         IN  <<[lo |-> i, hi |-> j]>> \o Runs(keys, j + 1)

\* sub_project.unwrap_or("sin categoría".to_owned())
NameOf(sub_project) == IF sub_project = <<>> THEN <<Label>> ELSE sub_project[1]

\* the fold of one group of into_grouping_map_by
InfoOf(items, sub_project) ==
    LET group == SelectSeq(items, LAMBDA x : x.body.sub_project = sub_project)
    IN  [total_time |-> SumNaiveDuration([k \in 1..Len(group) |-> group[k].session]),
         tasks |-> [k \in 1..Len(group) |-> [subject |-> group[k].body.subject]]]

\* sorted_by_key is stable and the HashMap of the grouping map iterates in
\* any order: groups of equal name come out in either order
Before(k1, k2, noneFirst) ==
    \/ LexLess(NameOf(k1), NameOf(k2))
    \/ /\ NameOf(k1) = NameOf(k2)
       /\ k1 # k2
       /\ (k1 = <<>>) = noneFirst

\* the sub_projects of one day
SubProjectsOf(items, noneFirst) ==
    LET keys == {items[k].body.sub_project : k \in 1..Len(items)}
        order == CHOOSE f \in [1..Cardinality(keys) -> keys] :
                     \A i, j \in 1..Cardinality(keys) :
                         i < j => Before(f[i], f[j], noneFirst)
    IN  [i \in 1..Cardinality(keys) |->
            [sub_project_name |-> NameOf(order[i]), info |-> InfoOf(items, order[i])]]

\* the days of one month; the items of the month begin after `base`
DaysOf(items, base, ties) ==
    LET runs == Runs([k \in 1..Len(items) |-> date(items[k].session.start)], 1)
    IN  [r \in 1..Len(runs) |->
            [date |-> date(items[runs[r].lo].session.start),
             sub_projects |-> SubProjectsOf(SubSeq(items, runs[r].lo, runs[r].hi),
                                            (base + runs[r].lo) \in ties)]]

\* process; `ties` are the first items of the days whose group without
\* category comes out before the group of the same name
MonthsOf(items, ties) ==
    LET runs == Runs([k \in 1..Len(items) |-> month_id(date(items[k].session.start))], 1)
    IN  [r \in 1..Len(runs) |->
            LET chunk == SubSeq(items, runs[r].lo, runs[r].hi)
            IN  [id |-> month_id(date(chunk[1].session.start)),
                 total_time |-> SumNaiveDuration([k \in 1..Len(chunk) |-> chunk[k].session]),
                 days |-> DaysOf(chunk, runs[r].lo - 1, ties)]]

\* the first items of the days that hold two groups of one name
TiedDays(items) ==
    LET runs == Runs([k \in 1..Len(items) |-> date(items[k].session.start)], 1)
    IN  {runs[r].lo : r \in {q \in 1..Len(runs) :
            \E k1, k2 \in runs[q].lo..runs[q].hi :
                /\ items[k1].body.sub_project # items[k2].body.sub_project
                /\ NameOf(items[k1].body.sub_project) = NameOf(items[k2].body.sub_project)}}

\* Itertools::unique: the first occurrence of every element, in order
RECURSIVE Unique(_)
Unique(q) ==
    IF q = <<>> THEN <<>>
    ELSE LET front == Unique(SubSeq(q, 1, Len(q) - 1))
         IN  IF \E k \in 1..Len(front) : front[k] = q[Len(q)]
             THEN front ELSE Append(front, q[Len(q)])

\* what format prints of one day: the name, the time and the tasks of
\* every sub project
PrintedDay(day) ==
    [date |-> day.date,
     sub_projects |-> [i \in 1..Len(day.sub_projects) |->
        [sub_project_name |-> day.sub_projects[i].sub_project_name,
         total_time |-> day.sub_projects[i].info.total_time,
         tasks |-> Unique(day.sub_projects[i].info.tasks)]]]

\* the days of every month, in order
AllDays(data) == Flatten([m \in 1..Len(data.months) |-> data.months[m].days])

\* process(sessions, timezone)
Process ==
    /\ binnacle = <<>>
    /\ \E ties \in SUBSET TiedDays(WithBodies(input, tz)) :
           binnacle' = <<[months |-> MonthsOf(WithBodies(input, tz), ties)]>>
    /\ UNCHANGED report
    /\ UNCHANGED sumVars
    /\ UNCHANGED besidesBin

\* format(binnacle_data, current_date)
Format ==
    /\ binnacle # <<>>
    /\ report = <<>>
    /\ report' = <<[k \in 1..Len(AllDays(binnacle[1])) |->
                      PrintedDay(AllDays(binnacle[1])[k])]>>
    /\ UNCHANGED binnacle
    /\ UNCHANGED sumVars
    /\ UNCHANGED besidesBin

\* the descriptions of the Sessions given to process
BinDescriptions ==
    { <<"a">>,
      <<"a", ":", " ", "a">>,
      <<"a", ":", " ", "b">>,
      <<"b", ":", " ", "a">>,
      <<Label, ":", " ", "a">> }

BinSessionSet ==
    { s \in [start : [utc : 0..MaxUtc, off : {0}], end : [utc : 0..MaxUtc, off : {0}],
             description : BinDescriptions] : s.start.utc <= s.end.utc }

InitBin ==
    /\ input \in SeqsUpTo(BinSessionSet, MaxSessions)
    /\ tz \in Offsets
    /\ taken = 0
    /\ pending = <<>>
    /\ days = <<>>
    /\ sumst = "run"
    /\ binnacle = <<>>
    /\ report = <<>>
    /\ IdleBesidesBin

NextBin == Process \/ Format

SpecBin == InitBin /\ [][NextBin]_vars

\* the name of the bucket the claim puts a sub-session in
BucketName(sub) == NameOf(parse(sub.description).sub_project)

\* the sub-sessions of day d that belong in the bucket called `name`
BucketSubs(d, name) ==
    SelectSeq(SubsOf(AllSubs, d), LAMBDA x : BucketName(x) = name)

\* the names of the buckets of a day, in the order listed
NamesListed(day) ==
    [i \in 1..Len(day.sub_projects) |-> day.sub_projects[i].sub_project_name]

(* C15 as claimed, for sub-sessions in date order: each day of the         *)
(* binnacle holds exactly one bucket per category occurring that day, the  *)
(* uncategorized sharing one bucket under the fixed label; the buckets are *)
(* listed in ascending lexicographic order of name, no name twice; each    *)
(* bucket's duration is the sum of the durations of its sub-sessions; and  *)
(* each task subject is reported once per bucket.                          *)
C15_OneBucketPerCategory ==
    /\ binnacle # <<>> /\ DatesAscend(AllSubs) =>
          \A n \in 1..Len(AllDays(binnacle[1])) :
              LET day == AllDays(binnacle[1])[n]
                  subs == SubsOf(AllSubs, day.date)
                  names == NamesListed(day)
              IN  /\ {names[i] : i \in 1..Len(names)} =
                         {BucketName(subs[k]) : k \in 1..Len(subs)}
                  /\ \A i, j \in 1..Len(names) : i < j => LexLess(names[i], names[j])
                  /\ \A i \in 1..Len(names) :
                         day.sub_projects[i].info.total_time =
                             SumNaiveDuration(BucketSubs(day.date, names[i]))
    /\ report # <<>> /\ DatesAscend(AllSubs) =>
          \A n \in 1..Len(report[1]) :
              \A i \in 1..Len(report[1][n].sub_projects) :
                  LET tasks == report[1][n].sub_projects[i].tasks
                      subs == BucketSubs(report[1][n].date,
                                         report[1][n].sub_projects[i].sub_project_name)
                  IN  /\ \A a, b \in 1..Len(tasks) : tasks[a] = tasks[b] => a = b
                      /\ {tasks[a].subject : a \in 1..Len(tasks)} =
                             {parse(subs[k].description).subject : k \in 1..Len(subs)}

----------------------------------------------------------------------------
(* parser.rs: a Session projected into the target timezone *)

\* session.with_timezone(&tz)
WithTimezone ==
    /\ projected = <<>>
    /\ projected' = <<with_timezone(input[1], tz)>>
    /\ UNCHANGED pcivil
    /\ UNCHANGED sumVars
    /\ UNCHANGED besidesProj

\* .naive_local() of the projected Session
NaiveLocal ==
    /\ projected # <<>>
    /\ pcivil = <<>>
    /\ pcivil' = <<naive_local(projected[1])>>
    /\ UNCHANGED projected
    /\ UNCHANGED sumVars
    /\ UNCHANGED besidesProj

\* Sessions as the parser yields them: each marker carries its own offset,
\* and nothing orders the two instants
MarkedSessionSet ==
    [start : [utc : 0..MaxUtc, off : Offsets],
     end : [utc : 0..MaxUtc, off : Offsets],
     description : {<<>>}]

InitProj ==
    /\ input \in [1..1 -> MarkedSessionSet]
    /\ tz \in Offsets
    /\ taken = 0
    /\ pending = <<>>
    /\ days = <<>>
    /\ sumst = "run"
    /\ projected = <<>>
    /\ pcivil = <<>>
    /\ IdleBesidesProj

NextProj == WithTimezone \/ NaiveLocal

SpecProj == InitProj /\ [][NextProj]_vars

\* the wall clock of the target timezone at an instant
WallClock(utc, offset) == utc + offset

(* C16: with_timezone(tz) and then naive_local give a civil start and a    *)
(* civil end that are both the wall-clock readings in tz of the session's  *)
(* instants, also when the two markers carry different offsets; so, tz     *)
(* being a fixed offset, civil end - civil start is end - start, and the   *)
(* civil start is not after the civil end when start is not after end.     *)
C16_ProjectedIntoTarget ==
    pcivil # <<>> =>
        /\ pcivil[1].start = WallClock(input[1].start.utc, tz)
        /\ pcivil[1].end = WallClock(input[1].end.utc, tz)
        /\ pcivil[1].end - pcivil[1].start = Duration(input[1])
        /\ input[1].start.utc <= input[1].end.utc => pcivil[1].start <= pcivil[1].end

\* markers of different offsets, the start's not the target's, and a
\* session that takes time
C16_Witness ==
    /\ pcivil # <<>>
    /\ input[1].start.off # input[1].end.off
    /\ input[1].start.off # tz
    /\ Duration(input[1]) > 0
    /\ pcivil[1].end - pcivil[1].start = Duration(input[1])

----------------------------------------------------------------------------
(* summary.rs: summarize, one sub-session at a time *)

\* how many sub-sessions the loop has folded when it has pulled tk Sessions
\* and pd is left of the last one
FoldedAt(tk, pd) ==
    Len(Flatten([i \in 1..tk |-> cut_at_days(input[i], tz)])) - Len(pd)

\* the dates of the sub-sessions
DatesOf(subs) == {date(subs[i].start) : i \in 1..Len(subs)}

\* one turn of the loop folds sub-session `sub`: its date has a bucket, that
\* bucket grows by its duration, every other bucket stays as it was
FoldsIntoOwnDate(sub) ==
    LET d == date(sub.start)
    IN  /\ DOMAIN days' = DOMAIN days \cup {d}
        /\ days'[d].duration =
               (IF d \in DOMAIN days THEN days[d].duration ELSE 0) + NaiveDuration(sub)
        /\ sub.description # <<>> => sub.description \in days'[d].descriptions
        /\ \A e \in DOMAIN days : e # d => days'[e] = days[e]

(* C17: when the sub-sessions reach summarize in non-decreasing date       *)
(* order, the Summary holds exactly one Day Summary per date that occurs,  *)
(* whose duration is the sum of the durations of all sub-sessions of that  *)
(* date; opening the bucket of a new date never changes the duration or    *)
(* the descriptions of a bucket of an earlier date, and a sub-session is   *)
(* always accumulated into the bucket of its own start date.               *)
C17_OneBucketPerDateInOrder ==
    [][DatesAscend(AllSubs) =>
         /\ FoldedAt(taken', pending') = FoldedAt(taken, pending) + 1 =>
                FoldsIntoOwnDate(AllSubs[FoldedAt(taken', pending')])
         /\ sumst' = "done" =>
                /\ DOMAIN days' = DatesOf(AllSubs)
                /\ \A d \in DOMAIN days' :
                       days'[d].duration = SumNaiveDuration(SubsOf(AllSubs, d))]_vars

\* two sub-sessions of one day and then one of the next day, each taking
\* time: the first day keeps the sum of its two when the second is opened
C17_Witness ==
    /\ sumst = "done"
    /\ DatesAscend(AllSubs)
    /\ Len(AllSubs) = 3
    /\ \A i \in 1..3 : NaiveDuration(AllSubs[i]) > 0
    /\ date(AllSubs[1].start) = date(AllSubs[2].start)
    /\ date(AllSubs[2].start) < date(AllSubs[3].start)
    /\ days[date(AllSubs[1].start)].duration =
           NaiveDuration(AllSubs[1]) + NaiveDuration(AllSubs[2])
    /\ days[date(AllSubs[3].start)].duration = NaiveDuration(AllSubs[3])

----------------------------------------------------------------------------
(* main.rs: the WorkTimeAnalysis command and the offsets of the markers *)

\* the same instants, every marker written with offset o
Remarked(inp, o) ==
    [k \in 1..Len(inp) |->
        [start |-> [utc |-> inp[k].start.utc, off |-> o],
         end |-> [utc |-> inp[k].end.utc, off |-> o],
         description |-> inp[k].description]]

\* the counters of the slots after the loop went through `subs`
RECURSIVE SumOverlap(_, _)
SumOverlap(subs, i) ==
    IF subs = <<>> THEN 0
    ELSE overlap(TimeRange(Head(subs)), i) + SumOverlap(Tail(subs), i)

SlotTotals(subs) == [i \in 1..SLOTS_PER_DAY |-> SumOverlap(subs, i - 1)]

\* the filtered Sessions projected into the target timezone and then split
\* at its midnights
ProjectedSubs(inp, range, timezone) ==
    Flatten([k \in 1..Len(Filtered(inp, range, timezone)) |->
                cut_at_days(Filtered(inp, range, timezone)[k], timezone)])

(* C18 as claimed: the histogram is computed from sub-sessions that were   *)
(* first projected into the target timezone and then split at that         *)
(* timezone's midnights, so that two logs recording the same instants with *)
(* different UTC offsets in their markers give the same per-slot totals.   *)
C18_TotalsInTargetTimezone ==
    hst = "done" =>
        /\ results = SlotTotals(ProjectedSubs(input, hrange, tz))
        /\ \A o \in Offsets :
               results = SlotTotals(HistSubs(Remarked(input, o), hrange, tz))

\* the loop adds up what it is given, whatever the offsets
HistLoopTotals ==
    hst = "done" => results = SlotTotals(HistSubs(input, hrange, tz))

=============================================================================
